---- MODULE Spec2Model ----
(***************************************************************************)
(* A model of advanced-vector/vector.h: RawMemory<T> (a block of raw       *)
(* storage) and Vector<T> (element lifetimes on top of it).                *)
(*                                                                         *)
(* The heap is explicit: every block is a sequence of cells, and a cell    *)
(* holds either no object, a moved-from object, or an object with a value. *)
(* Every public member function of Vector is one action; the action runs   *)
(* the whole function, including the unwinding of a thrown exception, and   *)
(* records in `last` what was called and the element operations it made.   *)
(* `tally` holds the counters of an instrumented element type while the     *)
(* program has only called PushBack on one container created empty, and     *)
(* `saved` the sequence the caller saw before its latest insertion.         *)
(* The element type T is a parameter of the template: `profile` fixes which *)
(* of its operations may throw and whether it can be copied.               *)
(***************************************************************************)
EXTENDS Integers, Sequences, FiniteSets, TLC

VARIABLES vec, heap, profile, last, throws, tally, saved

vars == <<vec, heap, profile, last, throws, tally, saved>>

(***************************************************************************)
(* Bounds of the model.                                                    *)
(***************************************************************************)
\* the largest block (in elements) the allocator hands out
MaxCap == 4
\* the number of distinct element values besides the moved-from state
NumValues == 2
\* elements of storage two vectors alive at the same time share
MaxShared == 4
\* elements the whole heap holds while one vector is alive: room for a block of
\* MaxCap elements beside the block of MaxCap / 2 it replaces
MaxHeap == MaxCap + MaxCap \div 2
\* number of blocks the heap can hand out
NumBlocks == 3
\* exceptions thrown in one run
MaxThrows == 1

Vecs == {"a", "b"}
Blocks == 1..NumBlocks
Values == 0..(NumValues - 1)

(***************************************************************************)
(* Cells of raw storage.                                                   *)
(***************************************************************************)
\* a cell of a block in which no object lives (fresh or destroyed storage)
NoObject == -2
\* the state a move leaves its source in: a live object without its value
MovedFrom == -1
\* the value T() has
DefaultValue == 0
\* buffer_ of a RawMemory that owns nothing
nullptr == 0

Live(x) == x # NoObject

(***************************************************************************)
(* The element type.  NothrowMove: is_nothrow_move_constructible and       *)
(* copyable.  CopyPreferred: copyable, move may throw.  MoveOnlyThrow: not  *)
(* copyable, move may throw.                                               *)
(***************************************************************************)
Profiles == {"NothrowMove", "CopyPreferred", "MoveOnlyThrow"}

IsNothrowMoveConstructible(p) == p = "NothrowMove"
IsCopyConstructible(p) == p # "MoveOnlyThrow"

(***************************************************************************)
(* RawMemory: Allocate / Deallocate on the heap.                           *)
(***************************************************************************)
FreeBlock == [alloc |-> FALSE, cells |-> <<>>]

RECURSIVE SumLen(_, _)
SumLen(h, n) == IF n = 0 THEN 0 ELSE Len(h[n].cells) + SumLen(h, n - 1)

HeapUsed(h) == SumLen(h, NumBlocks)

\* operator new can serve a request for n elements from a heap of `room` elements
CanAllocate(h, n, room) ==
    /\ HeapUsed(h) + n <= room
    /\ \/ n = 0
       \/ /\ n <= MaxCap
          /\ \E b \in Blocks : ~h[b].alloc

\* the address operator new returns: the lowest free block
NewBlock(h) == CHOOSE b \in Blocks : ~h[b].alloc /\ \A c \in Blocks : c < b => h[c].alloc

\* a machine state threaded through the steps of one member function
Machine(h) == [heap |-> h, log |-> <<>>, thrown |-> FALSE]

Note(m, e) == [m EXCEPT !.log = Append(@, e)]

Throw(m, what) == [Note(m, [op |-> "throw", b |-> 0, i |-> 0, sb |-> 0, si |-> 0,
                            src |-> TRUE, dst |-> FALSE, what |-> what])
                     EXCEPT !.thrown = TRUE]

Cell(m, b, i) == m.heap[b].cells[i + 1]

Ev(m, op, b, i, sb, si) ==
    [op |-> op, b |-> b, i |-> i, sb |-> sb, si |-> si,
     src |-> IF sb = 0 THEN TRUE ELSE Live(Cell(m, sb, si)),
     dst |-> Live(Cell(m, b, i)), what |-> ""]

Put(m, b, i, x, e) == [Note(m, e) EXCEPT !.heap[b].cells[i + 1] = x]

\* RawMemory(capacity): Allocate(capacity); n = 0 gives nullptr
Allocate(m, n) ==
    IF n = 0 THEN m
    ELSE LET b == NewBlock(m.heap)
         IN [Note(m, [op |-> "alloc", b |-> b, i |-> n, sb |-> 0, si |-> 0,
                      src |-> TRUE, dst |-> FALSE, what |-> ""])
               EXCEPT !.heap[b] = [alloc |-> TRUE, cells |-> [k \in 1..n |-> NoObject]]]

\* the objects still alive in block b
LiveIn(h, b) == IF b = nullptr THEN {} ELSE {k \in 1..Len(h[b].cells) : Live(h[b].cells[k])}

\* ~RawMemory: Deallocate(buffer_); operator delete(nullptr) does nothing.
\* `i` of the event is the number of objects that were still alive in the block.
Deallocate(m, b) ==
    IF b = nullptr THEN m
    ELSE [Note(m, [op |-> "free", b |-> b, i |-> Cardinality(LiveIn(m.heap, b)),
                   sb |-> 0, si |-> 0, src |-> TRUE, dst |-> FALSE, what |-> ""])
            EXCEPT !.heap[b] = FreeBlock]

(***************************************************************************)
(* Operations on one element.  g is the value a read of storage without an *)
(* object gives (undefined behaviour: any value).                          *)
(***************************************************************************)
Read(m, sb, si, g) == IF Live(Cell(m, sb, si)) THEN Cell(m, sb, si) ELSE g

\* new (Iter) T(args...)
ForwardConstruct(m, b, i, x) == Put(m, b, i, x, Ev(m, "construct", b, i, 0, 0))

\* new (dst) T()
ValueConstruct(m, b, i) == Put(m, b, i, DefaultValue, Ev(m, "value", b, i, 0, 0))

\* new (dst) T(src)
CopyConstruct(m, b, i, sb, si, g) ==
    Put(m, b, i, Read(m, sb, si, g), Ev(m, "copy", b, i, sb, si))

\* new (dst) T(std::move(src))
MoveConstruct(m, b, i, sb, si, g) ==
    LET x == Read(m, sb, si, g)
        m1 == Put(m, b, i, x, Ev(m, "move", b, i, sb, si))
    IN  IF <<sb, si>> = <<b, i>> THEN m1
        ELSE [m1 EXCEPT !.heap[sb].cells[si + 1] = MovedFrom]

\* dst = src
CopyAssignElem(m, b, i, sb, si, g) ==
    Put(m, b, i, Read(m, sb, si, g), Ev(m, "copyassign", b, i, sb, si))

\* dst = std::move(src)
MoveAssignElem(m, b, i, sb, si, g) ==
    LET x == Read(m, sb, si, g)
        m1 == Put(m, b, i, x, Ev(m, "moveassign", b, i, sb, si))
    IN  IF <<sb, si>> = <<b, i>> THEN m1
        ELSE [m1 EXCEPT !.heap[sb].cells[si + 1] = MovedFrom]

\* std::destroy_at(p)
DestroyAt(m, b, i) == Put(m, b, i, NoObject, Ev(m, "destroy", b, i, 0, 0))

(***************************************************************************)
(* The standard algorithms vector.h calls.  f is the index (from 0) of the *)
(* element operation that throws, -1 when none does.                       *)
(***************************************************************************)
NoThrow == 0 - 1

\* std::destroy_n(first, n)
RECURSIVE DestroyN(_, _, _, _)
DestroyN(m, b, i, n) ==
    IF n <= 0 THEN m ELSE DestroyN(DestroyAt(m, b, i), b, i + 1, n - 1)

\* std::uninitialized_copy_n(first, n, out): on a throw the copies made so far
\* are destroyed and the exception goes on
RECURSIVE UninitializedCopyFrom(_, _, _, _, _, _, _, _, _)
UninitializedCopyFrom(m, sb, si, n, b, i, f, g, j) ==
    IF j >= n THEN m
    ELSE IF j = f THEN DestroyN(Throw(m, "copy"), b, i, j)
    ELSE UninitializedCopyFrom(CopyConstruct(m, b, i + j, sb, si + j, g),
                               sb, si, n, b, i, f, g, j + 1)

UninitializedCopyN(m, sb, si, n, b, i, f, g) ==
    UninitializedCopyFrom(m, sb, si, n, b, i, f, g, 0)

\* std::uninitialized_move_n(first, n, out)
RECURSIVE UninitializedMoveFrom(_, _, _, _, _, _, _, _, _)
UninitializedMoveFrom(m, sb, si, n, b, i, f, g, j) ==
    IF j >= n THEN m
    ELSE IF j = f THEN DestroyN(Throw(m, "move"), b, i, j)
    ELSE UninitializedMoveFrom(MoveConstruct(m, b, i + j, sb, si + j, g),
                               sb, si, n, b, i, f, g, j + 1)

UninitializedMoveN(m, sb, si, n, b, i, f, g) ==
    UninitializedMoveFrom(m, sb, si, n, b, i, f, g, 0)

\* std::uninitialized_value_construct_n(first, n)
RECURSIVE UninitializedValueConstructFrom(_, _, _, _, _, _)
UninitializedValueConstructFrom(m, b, i, n, f, j) ==
    IF j >= n THEN m
    ELSE IF j = f THEN DestroyN(Throw(m, "value"), b, i, j)
    ELSE UninitializedValueConstructFrom(ValueConstruct(m, b, i + j), b, i, n, f, j + 1)

UninitializedValueConstructN(m, b, i, n, f) ==
    UninitializedValueConstructFrom(m, b, i, n, f, 0)

\* n assignments dst[i + d*j] = src[si + d*j], j = 0, 1, ...; an assignment that
\* throws leaves the ones before it done
RECURSIVE AssignRange(_, _, _, _, _, _, _, _, _, _, _)
AssignRange(moving, m, sb, si, b, i, n, d, f, g, j) ==
    IF j >= n THEN m
    ELSE IF j = f THEN Throw(m, IF moving THEN "moveassign" ELSE "copyassign")
    ELSE AssignRange(moving,
                     IF moving THEN MoveAssignElem(m, b, i + d * j, sb, si + d * j, g)
                     ELSE CopyAssignElem(m, b, i + d * j, sb, si + d * j, g),
                     sb, si, b, i, n, d, f, g, j + 1)

\* std::move_backward(first, last, d_last) inside block b: last element first
MoveBackward(m, b, first, lst, dlast, f, g) ==
    AssignRange(TRUE, m, b, lst - 1, b, dlast - 1, lst - first, -1, f, g, 0)

\* std::move(first, last, d_first) inside block b
StdMove(m, b, first, lst, dfirst, f, g) ==
    AssignRange(TRUE, m, b, first, b, dfirst, lst - first, 1, f, g, 0)

\* std::copy(first, last, d_first) inside block b
StdCopy(m, b, first, lst, dfirst, f, g) ==
    AssignRange(FALSE, m, b, first, b, dfirst, lst - first, 1, f, g, 0)

\* std::copy_n(first, n, out) from block sb to block b
CopyN(m, sb, si, n, b, i, f, g) ==
    AssignRange(FALSE, m, sb, si, b, i, n, 1, f, g, 0)

(***************************************************************************)
(* Vector<T>.  A vector is [alive, data_ : [buffer_, capacity_], size_].   *)
(***************************************************************************)
EmptyMemory == [buffer_ |-> nullptr, capacity_ |-> 0]

\* Vector() = default
EmptyVector == [alive |-> TRUE, data_ |-> EmptyMemory, size_ |-> 0]

\* storage of a vector object whose lifetime has ended or not begun
NoVector == [alive |-> FALSE, data_ |-> EmptyMemory, size_ |-> 0]

\* where an exception is thrown inside a call: at names the step, k the index
\* of the element operation within that step
NoFail == [at |-> "none", k |-> 0]
FailAt(at, k) == [at |-> at, k |-> k]
K(f, at) == IF f.at = at THEN f.k ELSE NoThrow

\* what a member function leaves: the machine, the vector and the value returned
Outcome(m, V, ret) == [heap |-> m.heap, log |-> m.log, thrown |-> m.thrown, me |-> V, ret |-> ret]

\* Relocate as it would be if it moved whatever the element type
RelocateByMove(m, p, sb, si, n, b, i, f, g) ==
    UninitializedMoveN(m, sb, si, n, b, i, f, g)

\* Vector::Relocate
Relocate(m, p, sb, si, n, b, i, f, g) ==
    IF IsNothrowMoveConstructible(p) \/ ~IsCopyConstructible(p)
    THEN UninitializedMoveN(m, sb, si, n, b, i, f, g)
    ELSE UninitializedCopyN(m, sb, si, n, b, i, f, g)

\* whether a relocation by Relocate can throw for the element type
RelocateMayThrow(p) ==
    IF IsNothrowMoveConstructible(p) \/ ~IsCopyConstructible(p)
    THEN ~IsNothrowMoveConstructible(p)
    ELSE TRUE

\* What Emplace is given to construct the element from (args...): an object
\* of the caller's with value x, or a reference to element k of this vector.
Temporary(x) == [own |-> FALSE, at |-> x]
OwnElement(k) == [own |-> TRUE, at |-> k]

\* ForwardConstruct(Iter, args...) in vector V: the constructor reads the
\* argument when it runs
ConstructFrom(m, V, b, i, a, g) ==
    IF a.own
    THEN Put(m, b, i, Read(m, V.data_.buffer_, a.at, g),
             Ev(m, "construct", b, i, V.data_.buffer_, a.at))
    ELSE ForwardConstruct(m, b, i, a.at)

\* Vector::Emplace, the branch size_ != Capacity() with pos == end()
EmplaceAtEnd(V, h, p, dist, x, f, g) ==
    LET b == V.data_.buffer_
        m0 == Machine(h)
    IN  IF f.at = "ctor"
        THEN IF IsNothrowMoveConstructible(p) \/ IsCopyConstructible(p)
             THEN Outcome(DestroyAt(Throw(m0, "ctor"), b, dist), V, -1)
             ELSE Outcome(Throw(m0, "ctor"), V, -1)
        ELSE Outcome(ConstructFrom(m0, V, b, dist, x, g),
                     [V EXCEPT !.size_ = @ + 1], dist)

\* Vector::Emplace, the branch size_ != Capacity() with pos inside the sequence
EmplaceInside(V, h, p, dist, x, f, g) ==
    LET b == V.data_.buffer_
        size == V.size_
        m0 == Machine(h)
        m1 == IF f.at = "first" THEN Throw(m0, "move")
              ELSE MoveConstruct(m0, b, size, b, size, g)
        m2 == IF m1.thrown THEN m1
              ELSE MoveBackward(m1, b, dist, size, size + 1, K(f, "shift"), g)
        m3 == IF m2.thrown THEN m2 ELSE DestroyAt(m2, b, size)
        m4 == IF m3.thrown THEN m3
              ELSE IF f.at = "ctor" THEN Throw(m3, "ctor")
              ELSE ConstructFrom(m3, V, b, dist, x, g)
    IN  IF m4.thrown THEN Outcome(m4, V, -1)
        ELSE Outcome(m4, [V EXCEPT !.size_ = @ + 1], dist)

\* the growing branch as it would be if it destroyed the old prefix as soon as
\* it was relocated
EmplaceGrowingEager(V, h, p, dist, x, f, g) ==
    LET b == V.data_.buffer_
        size == V.size_
        ncap == IF size > 0 THEN size * 2 ELSE 1
        m0 == Machine(h)
        nb == NewBlock(h)
        m1 == Allocate(m0, ncap)
        m2 == IF f.at = "ctor" THEN Throw(m1, "ctor") ELSE ConstructFrom(m1, V, nb, dist, x, g)
        m3 == IF m2.thrown THEN m2
              ELSE LET r == Relocate(m2, p, b, 0, dist, nb, 0, K(f, "pre"), g)
                   IN  IF r.thrown THEN r ELSE DestroyN(r, b, 0, dist)
        m4 == IF m3.thrown THEN m3
              ELSE Relocate(m3, p, b, dist, size - dist, nb, dist + 1, K(f, "suf"), g)
    IN  IF f.at = "alloc" THEN Outcome(Throw(m0, "alloc"), V, -1)
        ELSE IF m4.thrown THEN Outcome(Deallocate(m4, nb), V, -1)
        ELSE Outcome(Deallocate(DestroyN(m4, b, dist, size - dist), b),
                     [V EXCEPT !.data_ = [buffer_ |-> nb, capacity_ |-> ncap],
                               !.size_ = @ + 1],
                     dist)

\* Vector::Emplace, the branch size_ == Capacity()
EmplaceGrowing(V, h, p, dist, x, f, g) ==
    LET b == V.data_.buffer_
        size == V.size_
        ncap == IF size > 0 THEN size * 2 ELSE 1
        m0 == Machine(h)
        nb == NewBlock(h)
        m1 == Allocate(m0, ncap)
        m2 == IF f.at = "ctor" THEN Throw(m1, "ctor") ELSE ConstructFrom(m1, V, nb, dist, x, g)
        m3 == IF m2.thrown THEN m2 ELSE Relocate(m2, p, b, 0, dist, nb, 0, K(f, "pre"), g)
        m4 == IF m3.thrown THEN m3
              ELSE Relocate(m3, p, b, dist, size - dist, nb, dist + 1, K(f, "suf"), g)
    IN  IF f.at = "alloc" THEN Outcome(Throw(m0, "alloc"), V, -1)
        ELSE IF m4.thrown THEN Outcome(Deallocate(m4, nb), V, -1)
        ELSE Outcome(Deallocate(DestroyN(m4, b, 0, size), b),
                     [V EXCEPT !.data_ = [buffer_ |-> nb, capacity_ |-> ncap],
                               !.size_ = @ + 1],
                     dist)

\* Vector::Emplace
Emplace(V, h, p, dist, x, f, g) ==
    IF V.size_ # V.data_.capacity_
    THEN IF (V.data_.buffer_ = nullptr /\ dist = 0) \/ dist = V.size_
         THEN EmplaceAtEnd(V, h, p, dist, x, f, g)
         ELSE EmplaceInside(V, h, p, dist, x, f, g)
    ELSE EmplaceGrowing(V, h, p, dist, x, f, g)

\* the indices 0..n-1 of the element operations of a step that may throw
Throwing(n, may) == IF may THEN 0..(n - 1) ELSE {}

\* the exceptions an Emplace at dist can meet
EmplaceFailures(V, p, dist) ==
    LET size == V.size_
        thr == ~IsNothrowMoveConstructible(p)
    IN  {NoFail, FailAt("ctor", 0)} \cup
        IF size # V.data_.capacity_
        THEN IF dist = size THEN {}
             ELSE {FailAt("first", k) : k \in Throwing(1, thr)} \cup
                  {FailAt("shift", k) : k \in Throwing(size - dist, thr)}
        ELSE {FailAt("alloc", 0)} \cup
             {FailAt("pre", k) : k \in Throwing(dist, RelocateMayThrow(p))} \cup
             {FailAt("suf", k) : k \in Throwing(size - dist, RelocateMayThrow(p))}

\* the new capacity an Emplace asks the allocator for (0: none)
EmplaceNeeds(V) ==
    IF V.size_ # V.data_.capacity_ THEN 0
    ELSE IF V.size_ > 0 THEN V.size_ * 2 ELSE 1

Resume(r) == [heap |-> r.heap, log |-> r.log, thrown |-> FALSE]

Min(x, y) == IF x < y THEN x ELSE y

\* Reserve as it would be without the early return: it reallocates to the
\* larger of n and the capacity even when n <= Capacity()
ReserveAlways(V, h, p, n, f, g) ==
    LET b == V.data_.buffer_
        c == IF n <= V.data_.capacity_ THEN V.data_.capacity_ ELSE n
        m0 == Machine(h)
        nb == NewBlock(h)
        m1 == Allocate(m0, c)
        m2 == Relocate(m1, p, b, 0, V.size_, nb, 0, K(f, "reloc"), g)
    IN  IF c = 0 \/ ~CanAllocate(h, c, HeapUsed(h) + c) THEN Outcome(m0, V, 0)
        ELSE IF f.at = "alloc" THEN Outcome(Throw(m0, "alloc"), V, -1)
        ELSE IF m2.thrown THEN Outcome(Deallocate(m2, nb), V, -1)
        ELSE Outcome(Deallocate(DestroyN(m2, b, 0, V.size_), b),
                     [V EXCEPT !.data_ = [buffer_ |-> nb, capacity_ |-> c]], 0)

\* Vector::Reserve
Reserve(V, h, p, n, f, g) ==
    LET b == V.data_.buffer_
        m0 == Machine(h)
        nb == NewBlock(h)
        m1 == Allocate(m0, n)
        m2 == Relocate(m1, p, b, 0, V.size_, nb, 0, K(f, "reloc"), g)
    IN  IF n <= V.data_.capacity_ THEN Outcome(m0, V, 0)
        ELSE IF f.at = "alloc" THEN Outcome(Throw(m0, "alloc"), V, -1)
        ELSE IF m2.thrown THEN Outcome(Deallocate(m2, nb), V, -1)
        ELSE Outcome(Deallocate(DestroyN(m2, b, 0, V.size_), b),
                     [V EXCEPT !.data_ = [buffer_ |-> nb, capacity_ |-> n]], 0)

ReserveFailures(V, p, n) ==
    {NoFail} \cup
    IF n <= V.data_.capacity_ THEN {}
    ELSE {FailAt("alloc", 0)} \cup
         {FailAt("reloc", k) : k \in Throwing(V.size_, RelocateMayThrow(p))}

ReserveNeeds(V, n) == IF n <= V.data_.capacity_ THEN 0 ELSE n

\* Vector::Resize
Resize(V, h, p, n, f, g) ==
    LET m0 == Machine(h)
        r == IF n > V.data_.capacity_ THEN Reserve(V, h, p, n, f, g) ELSE Outcome(m0, V, 0)
        m1 == UninitializedValueConstructN(Resume(r), r.me.data_.buffer_, V.size_,
                                           n - V.size_, K(f, "value"))
    IN  IF n = V.size_ THEN Outcome(m0, V, 0)
        ELSE IF n < V.size_
        THEN Outcome(DestroyN(m0, V.data_.buffer_, n, V.size_ - n), [V EXCEPT !.size_ = n], 0)
        ELSE IF r.thrown THEN r
        ELSE IF m1.thrown THEN Outcome(m1, r.me, -1)
        ELSE Outcome(m1, [r.me EXCEPT !.size_ = n], 0)

ResizeFailures(V, p, n) ==
    IF n <= V.size_ THEN {NoFail}
    ELSE ReserveFailures(V, p, n) \cup {FailAt("value", k) : k \in 0..(n - V.size_ - 1)}

\* Vector::PopBack
PopBack(V, h) ==
    Outcome(DestroyAt(Machine(h), V.data_.buffer_, V.size_ - 1), [V EXCEPT !.size_ = @ - 1], 0)

\* Erase as it would be if the tail were shifted starting from its last element
EraseShiftingBackward(V, h, p, dist, f, g) ==
    LET b == V.data_.buffer_
        m0 == Machine(h)
        m1 == AssignRange(IsNothrowMoveConstructible(p) \/ ~IsCopyConstructible(p),
                          m0, b, V.size_ - 1, b, V.size_ - 2, V.size_ - dist - 1, -1,
                          K(f, "shift"), g, 0)
    IN  IF m1.thrown THEN Outcome(m1, V, -1)
        ELSE Outcome(DestroyAt(m1, b, V.size_ - 1), [V EXCEPT !.size_ = @ - 1], dist)

\* Vector::Erase
Erase(V, h, p, dist, f, g) ==
    LET b == V.data_.buffer_
        m0 == Machine(h)
        m1 == IF IsNothrowMoveConstructible(p) \/ ~IsCopyConstructible(p)
              THEN StdMove(m0, b, dist + 1, V.size_, dist, K(f, "shift"), g)
              ELSE StdCopy(m0, b, dist + 1, V.size_, dist, K(f, "shift"), g)
    IN  IF m1.thrown THEN Outcome(m1, V, -1)
        ELSE Outcome(DestroyAt(m1, b, V.size_ - 1), [V EXCEPT !.size_ = @ - 1], dist)

EraseFailures(V, p, dist) ==
    {NoFail} \cup
    {FailAt("shift", k) : k \in Throwing(V.size_ - dist - 1, RelocateMayThrow(p))}

\* Vector(size_t size)
SizedConstruct(h, n, f) ==
    LET m0 == Machine(h)
        nb == IF n = 0 THEN nullptr ELSE NewBlock(h)
        m1 == Allocate(m0, n)
        m2 == UninitializedValueConstructN(m1, nb, 0, n, K(f, "value"))
    IN  IF f.at = "alloc" THEN Outcome(Throw(m0, "alloc"), NoVector, -1)
        ELSE IF m2.thrown THEN Outcome(Deallocate(m2, nb), NoVector, -1)
        ELSE Outcome(m2, [alive |-> TRUE, data_ |-> [buffer_ |-> nb, capacity_ |-> n],
                          size_ |-> n], 0)

SizedFailures(n) ==
    {NoFail} \cup {FailAt("alloc", k) : k \in Throwing(1, n > 0)}
             \cup {FailAt("value", k) : k \in 0..(n - 1)}

\* Vector(const Vector &other), continuing machine m
CopyConstructVector(m, W, f, g) ==
    LET n == W.size_
        nb == IF n = 0 THEN nullptr ELSE NewBlock(m.heap)
        m1 == Allocate(m, n)
        m2 == UninitializedCopyN(m1, W.data_.buffer_, 0, n, nb, 0, K(f, "copy"), g)
    IN  IF f.at = "alloc" THEN Outcome(Throw(m, "alloc"), NoVector, -1)
        ELSE IF m2.thrown THEN Outcome(Deallocate(m2, nb), NoVector, -1)
        ELSE Outcome(m2, [alive |-> TRUE, data_ |-> [buffer_ |-> nb, capacity_ |-> n],
                          size_ |-> n], 0)

CopyFailures(W) ==
    {NoFail} \cup {FailAt("alloc", k) : k \in Throwing(1, W.size_ > 0)}
             \cup {FailAt("copy", k) : k \in 0..(W.size_ - 1)}

\* RawMemory(RawMemory &&other): the pair <<what this gets, what other keeps>>
RawMemoryMoveConstruct(other) == <<other, EmptyMemory>>

\* move assignment as it would be if written as a swap
RawMemoryMoveAssignBySwap(mine, rhs) == <<rhs, mine>>

\* RawMemory::operator=(RawMemory &&rhs): the pair <<what this gets, what rhs keeps>>;
\* the block `mine` owned is not passed to Deallocate
RawMemoryMoveAssign(mine, rhs) == <<rhs, EmptyMemory>>

\* RawMemory::Swap
RawMemorySwap(mine, other) == <<other, mine>>

\* Vector(Vector &&other): the pair <<this, other>>
MoveConstructVector(W) ==
    LET d == RawMemoryMoveConstruct(W.data_)
    IN  <<[alive |-> TRUE, data_ |-> d[1], size_ |-> W.size_],
          [W EXCEPT !.data_ = d[2], !.size_ = 0]>>

\* Vector::operator=(Vector &&rhs) with this != &rhs: the pair <<this, rhs>>
MoveAssignVector(V, W) ==
    LET d == RawMemoryMoveAssign(V.data_, W.data_)
    IN  <<[V EXCEPT !.data_ = d[1], !.size_ = W.size_],
          [W EXCEPT !.data_ = d[2], !.size_ = 0]>>

\* Vector::Swap: the pair <<this, other>>
SwapVector(V, W) ==
    LET d == RawMemorySwap(V.data_, W.data_)
    IN  <<[V EXCEPT !.data_ = d[1], !.size_ = W.size_],
          [W EXCEPT !.data_ = d[2], !.size_ = V.size_]>>

\* ~Vector followed by ~RawMemory of the member data_, continuing machine m
DestroyVector(m, V) ==
    Deallocate(DestroyN(m, V.data_.buffer_, 0, V.size_), V.data_.buffer_)

\* copy assignment as it would be if the surplus of rhs were copied from
\* rhs.begin() instead of rhs.begin() + size_
CopyAssignVectorFromStart(V, W, h, f, g) ==
    LET b == V.data_.buffer_
        wb == W.data_.buffer_
        m0 == Machine(h)
        c == CopyConstructVector(m0, W, f, g)
        m1 == CopyN(m0, wb, 0, Min(W.size_, V.size_), b, 0, K(f, "assign"), g)
        m2 == IF V.size_ > W.size_
              THEN DestroyN(m1, b, W.size_, V.size_ - W.size_)
              ELSE UninitializedCopyN(m1, wb, 0, W.size_ - V.size_, b, V.size_,
                                      K(f, "copy"), g)
    IN  IF W.size_ > V.data_.capacity_
        THEN IF c.thrown THEN Outcome(c, V, -1)
             ELSE Outcome(DestroyVector(Resume(c), V),
                          [V EXCEPT !.data_ = c.me.data_, !.size_ = c.me.size_], 0)
        ELSE IF m1.thrown THEN Outcome(m1, V, -1)
        ELSE IF m2.thrown THEN Outcome(m2, V, -1)
        ELSE Outcome(m2, [V EXCEPT !.size_ = W.size_], 0)

\* Vector::operator=(const Vector &rhs) with this != &rhs
CopyAssignVector(V, W, h, f, g) ==
    LET b == V.data_.buffer_
        wb == W.data_.buffer_
        m0 == Machine(h)
        c == CopyConstructVector(m0, W, f, g)
        m1 == CopyN(m0, wb, 0, Min(W.size_, V.size_), b, 0, K(f, "assign"), g)
        m2 == IF V.size_ > W.size_
              THEN DestroyN(m1, b, W.size_, V.size_ - W.size_)
              ELSE UninitializedCopyN(m1, wb, V.size_, W.size_ - V.size_, b, V.size_,
                                      K(f, "copy"), g)
    IN  IF W.size_ > V.data_.capacity_
        THEN IF c.thrown THEN Outcome(c, V, -1)
             ELSE Outcome(DestroyVector(Resume(c), V),
                          [V EXCEPT !.data_ = c.me.data_, !.size_ = c.me.size_], 0)
        ELSE IF m1.thrown THEN Outcome(m1, V, -1)
        ELSE IF m2.thrown THEN Outcome(m2, V, -1)
        ELSE Outcome(m2, [V EXCEPT !.size_ = W.size_], 0)

CopyAssignFailures(V, W) ==
    IF W.size_ > V.data_.capacity_ THEN CopyFailures(W)
    ELSE {NoFail} \cup {FailAt("assign", k) : k \in 0..(Min(W.size_, V.size_) - 1)}
                  \cup {FailAt("copy", k) : k \in 0..(W.size_ - V.size_ - 1)}

CopyAssignNeeds(V, W) == IF W.size_ > V.data_.capacity_ THEN W.size_ ELSE 0

\* PushBack as it would be if a full vector grew by one slot (Reserve(size_ + 1))
\* instead of doubling
PushBackGrowingByOne(V, h, p, x, f, g) ==
    IF V.size_ # V.data_.capacity_ THEN Emplace(V, h, p, V.size_, x, f, g)
    ELSE IF f.at = "alloc" THEN Outcome(Throw(Machine(h), "alloc"), V, -1)
    ELSE LET r == Reserve(V, h, p, V.size_ + 1, NoFail, g)
             e == EmplaceAtEnd(r.me, r.heap, p, V.size_, x, f, g)
         IN  [e EXCEPT !.log = r.log \o @]

\* Vector::Insert (both overloads) forwards to Emplace
Insert(V, h, p, dist, x, f, g) == Emplace(V, h, p, dist, x, f, g)

\* Vector::EmplaceBack: Emplace(end(), args...)
EmplaceBack(V, h, p, x, f, g) == Emplace(V, h, p, V.size_, x, f, g)

\* Vector::PushBack (both overloads) forwards to EmplaceBack
PushBack(V, h, p, x, f, g) == EmplaceBack(V, h, p, x, f, g)

\* the cells [0, size_) of a vector, in order
Elems(V, h) == [i \in 1..V.size_ |-> h[V.data_.buffer_].cells[i]]

\* the whole block of a vector
BlockOf(V, h) == IF V.data_.buffer_ = nullptr THEN <<>> ELSE h[V.data_.buffer_].cells

\* [0, size_) holds live objects, [size_, capacity_) holds none
WellFormed(V, h) ==
    /\ 0 <= V.size_ /\ V.size_ <= V.data_.capacity_
    /\ Len(BlockOf(V, h)) = V.data_.capacity_
    /\ \A i \in 1..V.data_.capacity_ : Live(BlockOf(V, h)[i]) <=> i <= V.size_

\* a well-formed vector all of whose elements have a value
Clean(V, h) ==
    /\ V.alive
    /\ WellFormed(V, h)
    /\ \A i \in 1..V.size_ : BlockOf(V, h)[i] \in Values

\* s with x put before index p (from 0)
InsertedAt(s, p, x) == SubSeq(s, 1, p) \o <<x>> \o SubSeq(s, p + 1, Len(s))

IsInsertion(c) == c.op \in {"Insert", "PushBack"}

\* a well-formed vector none of whose elements has been moved from
Intact(V, h) ==
    /\ V.alive
    /\ WellFormed(V, h)
    /\ \A i \in 1..V.size_ : BlockOf(V, h)[i] # MovedFrom

(***************************************************************************)
(* What the caller keeps beside the vectors: the counters of the element   *)
(* type and the sequence it saw before an insertion.                       *)
(***************************************************************************)
ZeroTally == [on |-> TRUE, pushes |-> 0, construct |-> 0, copy |-> 0, move |-> 0, destroy |-> 0]
NoTally == [ZeroTally EXCEPT !.on = FALSE]

\* the number of element operations of the kinds `ops` in a trace
Count(log, ops) == Cardinality({k \in 1..Len(log) : log[k].op \in ops})

\* the counters after a call: they stay meaningful while every call is a
\* PushBack that returns
Tallied(t, call) ==
    IF t.on /\ call.op = "PushBack" /\ ~call.thrown
    THEN [on |-> TRUE,
          pushes |-> t.pushes + 1,
          construct |-> t.construct + Count(call.log, {"construct"}),
          copy |-> t.copy + Count(call.log, {"copy", "copyassign"}),
          move |-> t.move + Count(call.log, {"move", "moveassign"}),
          destroy |-> t.destroy + Count(call.log, {"destroy"})]
    ELSE NoTally

NoSnapshot == [on |-> FALSE, v |-> "a", pos |-> 0, elems |-> <<>>]

\* the sequence vector v held when a call that inserts was made on it
Snapshot(v, V, h, call) ==
    IF IsInsertion(call) /\ ~call.thrown /\ Intact(V, h)
    THEN [on |-> TRUE, v |-> v, pos |-> call.pos, elems |-> Elems(V, h)]
    ELSE NoSnapshot

(***************************************************************************)
(* The state machine: one action per public member function.               *)
(***************************************************************************)
Called(op, v, w, pos, x, n, f, r) ==
    [op |-> op, v |-> v, w |-> w, pos |-> pos, x |-> x, n |-> n, f |-> f,
     thrown |-> r.thrown, ret |-> r.ret, log |-> r.log]

NoCall == [op |-> "none", v |-> "a", w |-> "a", pos |-> 0, x |-> 0, n |-> 0, f |-> NoFail,
           thrown |-> FALSE, ret |-> 0, log |-> <<>>]

Quiet(h) == Outcome(Machine(h), NoVector, 0)

\* what one vector's call leaves
Leaves(v, r, call) ==
    /\ vec' = [vec EXCEPT ![v] = r.me]
    /\ heap' = r.heap
    /\ last' = call
    /\ throws' = IF r.thrown THEN throws + 1 ELSE throws
    /\ tally' = Tallied(tally, call)
    /\ saved' = Snapshot(v, vec[v], heap, call)
    /\ UNCHANGED profile

\* the storage the model lets the program use when k vectors are alive
Room(k) == IF k > 1 THEN MaxShared ELSE MaxHeap

Alive == {v \in Vecs : vec[v].alive}

\* the caller is between two calls
Idle == last = NoCall

\* an exception may be thrown in this call
MayThrow(f) == f # NoFail => throws < MaxThrows

\* the caller takes what the call returned (or catches what it threw)
Return ==
    /\ ~Idle
    /\ last' = NoCall
    /\ UNCHANGED <<vec, heap, profile, throws, tally, saved>>

DefaultConstructCall(v) ==
    /\ Idle
    /\ ~vec[v].alive
    /\ CanAllocate(heap, 0, Room(Cardinality(Alive) + 1))
    /\ vec' = [vec EXCEPT ![v] = EmptyVector]
    /\ last' = Called("Vector()", v, v, 0, 0, 0, NoFail, Quiet(heap))
    /\ tally' = IF Alive = {} THEN ZeroTally ELSE NoTally
    /\ saved' = NoSnapshot
    /\ UNCHANGED <<heap, profile, throws>>

SizedConstructCall(v) ==
    /\ Idle
    /\ ~vec[v].alive
    /\ \E n \in 0..MaxCap : \E f \in SizedFailures(n) :
         /\ MayThrow(f)
         /\ f.at # "alloc" => CanAllocate(heap, n, Room(Cardinality(Alive) + 1))
         /\ LET r == SizedConstruct(heap, n, f)
            IN  Leaves(v, r, Called("Vector(n)", v, v, 0, 0, n, f, r))

CopyConstructCall(v, w) ==
    /\ Idle
    /\ ~vec[v].alive /\ vec[w].alive /\ v # w
    /\ IsCopyConstructible(profile)
    /\ \E g \in Values : \E f \in CopyFailures(vec[w]) :
         /\ MayThrow(f)
         /\ f.at # "alloc" => CanAllocate(heap, vec[w].size_, Room(Cardinality(Alive) + 1))
         /\ LET r == CopyConstructVector(Machine(heap), vec[w], f, g)
            IN  Leaves(v, r, Called("Vector(const&)", v, w, 0, 0, 0, f, r))

MoveConstructCall(v, w) ==
    /\ Idle
    /\ ~vec[v].alive /\ vec[w].alive /\ v # w
    /\ CanAllocate(heap, 0, Room(Cardinality(Alive) + 1))
    /\ LET r == MoveConstructVector(vec[w])
       IN  /\ vec' = [vec EXCEPT ![v] = r[1], ![w] = r[2]]
           /\ last' = Called("Vector(&&)", v, w, 0, 0, 0, NoFail, Quiet(heap))
    /\ tally' = NoTally
    /\ saved' = NoSnapshot
    /\ UNCHANGED <<heap, profile, throws>>

CopyAssignCall(v, w) ==
    /\ Idle
    /\ vec[v].alive /\ vec[w].alive
    /\ IsCopyConstructible(profile)
    /\ IF v = w
       THEN /\ last' = Called("operator=(const&)", v, w, 0, 0, 0, NoFail, Quiet(heap))
            /\ tally' = NoTally
            /\ saved' = NoSnapshot
            /\ UNCHANGED <<vec, heap, profile, throws>>
       ELSE \E g \in Values : \E f \in CopyAssignFailures(vec[v], vec[w]) :
              /\ MayThrow(f)
              /\ (f.at # "alloc" /\ CopyAssignNeeds(vec[v], vec[w]) > 0)
                   => CanAllocate(heap, CopyAssignNeeds(vec[v], vec[w]), Room(Cardinality(Alive)))
              /\ LET r == CopyAssignVector(vec[v], vec[w], heap, f, g)
                 IN  Leaves(v, r, Called("operator=(const&)", v, w, 0, 0, 0, f, r))

MoveAssignCall(v, w) ==
    /\ Idle
    /\ vec[v].alive /\ vec[w].alive
    /\ LET r == IF v = w THEN <<vec[v], vec[v]>> ELSE MoveAssignVector(vec[v], vec[w])
       IN  /\ vec' = [vec EXCEPT ![v] = r[1], ![w] = IF v = w THEN r[1] ELSE r[2]]
           /\ last' = Called("operator=(&&)", v, w, 0, 0, 0, NoFail, Quiet(heap))
    /\ tally' = NoTally
    /\ saved' = NoSnapshot
    /\ UNCHANGED <<heap, profile, throws>>

DestructorCall(v) ==
    /\ Idle
    /\ vec[v].alive
    /\ LET m == DestroyVector(Machine(heap), vec[v])
           r == Outcome(m, NoVector, 0)
       IN  Leaves(v, r, Called("~Vector", v, v, 0, 0, 0, NoFail, r))

SwapCall(v, w) ==
    /\ Idle
    /\ vec[v].alive /\ vec[w].alive
    /\ LET r == SwapVector(vec[v], vec[w])
       IN  /\ vec' = [vec EXCEPT ![v] = r[1], ![w] = IF v = w THEN r[1] ELSE r[2]]
           /\ last' = Called("Swap", v, w, 0, 0, 0, NoFail, Quiet(heap))
    /\ tally' = NoTally
    /\ saved' = NoSnapshot
    /\ UNCHANGED <<heap, profile, throws>>

ReserveCall(v) ==
    /\ Idle
    /\ vec[v].alive
    /\ \E n \in 0..MaxCap, g \in Values : \E f \in ReserveFailures(vec[v], profile, n) :
         /\ MayThrow(f)
         /\ f.at # "alloc" => CanAllocate(heap, ReserveNeeds(vec[v], n), Room(Cardinality(Alive)))
         /\ LET r == Reserve(vec[v], heap, profile, n, f, g)
            IN  Leaves(v, r, Called("Reserve", v, v, 0, 0, n, f, r))

ResizeCall(v) ==
    /\ Idle
    /\ vec[v].alive
    /\ \E n \in 0..MaxCap, g \in Values : \E f \in ResizeFailures(vec[v], profile, n) :
         /\ MayThrow(f)
         /\ f.at # "alloc" => CanAllocate(heap, ReserveNeeds(vec[v], n), Room(Cardinality(Alive)))
         /\ LET r == Resize(vec[v], heap, profile, n, f, g)
            IN  Leaves(v, r, Called("Resize", v, v, 0, 0, n, f, r))

PushBackCall(v) ==
    /\ Idle
    /\ vec[v].alive
    /\ \E x \in Values, g \in Values : \E f \in EmplaceFailures(vec[v], profile, vec[v].size_) :
         /\ MayThrow(f)
         /\ f.at # "alloc" => CanAllocate(heap, EmplaceNeeds(vec[v]), Room(Cardinality(Alive)))
         /\ LET r == PushBack(vec[v], heap, profile, Temporary(x), f, g)
            IN  Leaves(v, r, Called("PushBack", v, v, vec[v].size_, x, 0, f, r))

InsertCall(v) ==
    /\ Idle
    /\ vec[v].alive
    /\ \E dist \in 0..vec[v].size_, x \in Values, g \in Values :
         \E f \in EmplaceFailures(vec[v], profile, dist) :
           /\ MayThrow(f)
           /\ f.at # "alloc" => CanAllocate(heap, EmplaceNeeds(vec[v]), Room(Cardinality(Alive)))
           /\ LET r == Insert(vec[v], heap, profile, dist, Temporary(x), f, g)
              IN  Leaves(v, r, Called("Insert", v, v, dist, x, 0, f, r))

\* v.PushBack(v[k]): the argument is a reference to an element of v itself
PushBackOwnCall(v) ==
    /\ Idle
    /\ vec[v].alive
    /\ IsCopyConstructible(profile)
    /\ \E k \in 0..(vec[v].size_ - 1), g \in Values :
         \E f \in EmplaceFailures(vec[v], profile, vec[v].size_) :
           /\ MayThrow(f)
           /\ f.at # "alloc" => CanAllocate(heap, EmplaceNeeds(vec[v]), Room(Cardinality(Alive)))
           /\ LET r == PushBack(vec[v], heap, profile, OwnElement(k), f, g)
                  x == Read(Machine(heap), vec[v].data_.buffer_, k, g)
              IN  Leaves(v, r, Called("PushBackOwn", v, v, vec[v].size_, x, k, f, r))

\* v.Insert(pos, v[k])
InsertOwnCall(v) ==
    /\ Idle
    /\ vec[v].alive
    /\ IsCopyConstructible(profile)
    /\ \E dist \in 0..vec[v].size_, k \in 0..(vec[v].size_ - 1), g \in Values :
         \E f \in EmplaceFailures(vec[v], profile, dist) :
           /\ MayThrow(f)
           /\ f.at # "alloc" => CanAllocate(heap, EmplaceNeeds(vec[v]), Room(Cardinality(Alive)))
           /\ LET r == Insert(vec[v], heap, profile, dist, OwnElement(k), f, g)
                  x == Read(Machine(heap), vec[v].data_.buffer_, k, g)
              IN  Leaves(v, r, Called("InsertOwn", v, v, dist, x, k, f, r))

PopBackCall(v) ==
    /\ Idle
    /\ vec[v].alive /\ vec[v].size_ > 0
    /\ LET r == PopBack(vec[v], heap)
       IN  Leaves(v, r, Called("PopBack", v, v, 0, 0, 0, NoFail, r))

EraseCall(v) ==
    /\ Idle
    /\ vec[v].alive
    /\ \E dist \in 0..(vec[v].size_ - 1), g \in Values :
         \E f \in EraseFailures(vec[v], profile, dist) :
           /\ MayThrow(f)
           /\ LET r == Erase(vec[v], heap, profile, dist, f, g)
              IN  Leaves(v, r, Called("Erase", v, v, dist, 0, 0, f, r))

(***************************************************************************)
(* Spec: one vector and every member function that works on one vector.    *)
(***************************************************************************)
Init ==
    /\ vec = [v \in Vecs |-> IF v = "a" THEN EmptyVector ELSE NoVector]
    /\ heap = [b \in Blocks |-> FreeBlock]
    /\ profile \in Profiles
    /\ last = NoCall
    /\ throws = 0
    /\ tally = ZeroTally
    /\ saved = NoSnapshot

Next ==
    \/ Return
    \/ DefaultConstructCall("a")
    \/ SizedConstructCall("a")
    \/ DestructorCall("a")
    \/ ReserveCall("a")
    \/ ResizeCall("a")
    \/ PushBackCall("a")
    \/ InsertCall("a")
    \/ PushBackOwnCall("a")
    \/ InsertOwnCall("a")
    \/ PopBackCall("a")
    \/ EraseCall("a")

Spec == Init /\ [][Next]_vars

(***************************************************************************)
(* SpecPair: two vectors, the member functions that take another vector,   *)
(* and PushBack / PopBack to fill them.                                    *)
(***************************************************************************)
InitPair ==
    /\ vec = [v \in Vecs |-> EmptyVector]
    /\ heap = [b \in Blocks |-> FreeBlock]
    /\ profile \in Profiles
    /\ last = NoCall
    /\ throws = 0
    /\ tally = NoTally
    /\ saved = NoSnapshot

NextPair ==
    \/ Return
    \/ \E v \in Vecs :
           \/ DestructorCall(v)
           \/ PushBackCall(v)
           \/ PopBackCall(v)
           \/ \E w \in Vecs :
                \/ CopyConstructCall(v, w)
                \/ MoveConstructCall(v, w)
                \/ CopyAssignCall(v, w)
                \/ MoveAssignCall(v, w)
                \/ SwapCall(v, w)

SpecPair == InitPair /\ [][NextPair]_vars

(***************************************************************************)
(* SpecNumbers: one vector of numbers, an element type none of whose        *)
(* operations throws, filled by calls that do not run out of memory.        *)
(***************************************************************************)
Numbers == {1, 2, 3, 9}

PushBackNumber(v) ==
    /\ Idle
    /\ vec[v].alive
    /\ \E x \in Numbers, g \in Numbers :
         /\ CanAllocate(heap, EmplaceNeeds(vec[v]), Room(Cardinality(Alive)))
         /\ LET r == PushBack(vec[v], heap, profile, Temporary(x), NoFail, g)
            IN  Leaves(v, r, Called("PushBack", v, v, vec[v].size_, x, 0, NoFail, r))

InsertNumber(v) ==
    /\ Idle
    /\ vec[v].alive
    /\ \E dist \in 0..vec[v].size_, x \in Numbers, g \in Numbers :
         /\ CanAllocate(heap, EmplaceNeeds(vec[v]), Room(Cardinality(Alive)))
         /\ LET r == Insert(vec[v], heap, profile, dist, Temporary(x), NoFail, g)
            IN  Leaves(v, r, Called("Insert", v, v, dist, x, 0, NoFail, r))

EraseNumber(v) ==
    /\ Idle
    /\ vec[v].alive
    /\ \E dist \in 0..(vec[v].size_ - 1), g \in Numbers :
         LET r == Erase(vec[v], heap, profile, dist, NoFail, g)
         IN  Leaves(v, r, Called("Erase", v, v, dist, 0, 0, NoFail, r))

NextNumbers ==
    \/ Return
    \/ PushBackNumber("a")
    \/ InsertNumber("a")
    \/ EraseNumber("a")
    \/ PopBackCall("a")

SpecNumbers == Init /\ [][NextNumbers]_vars

(***************************************************************************)
(* SpecAssign: copy assignment a = b between two vectors as a program can   *)
(* have built them: a by Vector(n) and Reserve(c), b by copying a sequence  *)
(* of n values.                                                            *)
(***************************************************************************)
\* the longest vector copy assignment is tried on
MaxLen == MaxCap + 1

\* a block of c slots whose first Len(s) slots hold the objects s
BlockHolding(c, s) ==
    IF c = 0 THEN FreeBlock
    ELSE [alloc |-> TRUE, cells |-> [i \in 1..c |-> IF i <= Len(s) THEN s[i] ELSE NoObject]]

\* the vector that owns block b of c slots and holds n elements
VectorOn(b, c, n) ==
    [alive |-> TRUE,
     data_ |-> [buffer_ |-> IF c = 0 THEN nullptr ELSE b, capacity_ |-> c],
     size_ |-> n]

InitAssign ==
    /\ \E ca \in 0..MaxLen : \E na \in 0..ca : \E nb \in 0..MaxLen :
         \E sb \in [1..nb -> Values] :
           /\ vec = [v \in Vecs |-> IF v = "a" THEN VectorOn(1, ca, na)
                                    ELSE VectorOn(2, nb, nb)]
           /\ heap = [b \in Blocks |->
                        IF b = 1 THEN BlockHolding(ca, [i \in 1..na |-> DefaultValue])
                        ELSE IF b = 2 THEN BlockHolding(nb, sb)
                        ELSE FreeBlock]
    /\ profile \in Profiles
    /\ last = NoCall
    /\ throws = 0
    /\ tally = NoTally
    /\ saved = NoSnapshot

NextAssign ==
    \/ Return
    \/ CopyAssignCall("a", "b")

SpecAssign == InitAssign /\ [][NextAssign]_vars

(***************************************************************************)
(* What the claims speak about.                                            *)
(***************************************************************************)

\* the three cases of Emplace, told from the state before the call
AtEndWithRoom(V, dist) == V.size_ # V.data_.capacity_ /\ dist = V.size_
InsideWithRoom(V, dist) == V.size_ # V.data_.capacity_ /\ dist < V.size_
Growing(V) == V.size_ = V.data_.capacity_

Events(c, ops) == {k \in 1..Len(c.log) : c.log[k].op \in ops}

\* objects that were alive in a block when it was released
LostAtFree(c) == {k \in Events(c, {"free"}) : c.log[k].i > 0}

\* destructor calls on storage that held no object
DeadDestroys(c) == {k \in Events(c, {"destroy"}) : ~c.log[k].dst}

\* C1: after any sequence of non-failing calls, 0 <= Size() <= Capacity(),
\* every slot in [0, Size()) holds a live element and every slot in
\* [Size(), Capacity()) holds none.
C1_SizeCapacityInvariant ==
    throws = 0 => \A v \in Vecs : vec[v].alive => WellFormed(vec[v], heap)

\* C2: a non-failing Insert(p, v) of a value that is not in the container
\* leaves s[0..p), v, s[p..), makes Size() one larger and returns position p,
\* in each of the three cases.
C2_InsertPlacesValue ==
    [][\A v \in Vecs :
         (/\ IsInsertion(last') /\ last'.v = v /\ ~last'.thrown
          /\ Clean(vec[v], heap)
          /\ \A i \in 1..vec[v].size_ : Elems(vec[v], heap)[i] # last'.x)
         => /\ vec'[v].size_ = vec[v].size_ + 1
            /\ Elems(vec'[v], heap') = InsertedAt(Elems(vec[v], heap), last'.pos, last'.x)
            /\ last'.ret = last'.pos]_vars

\* C3: for an element type Relocate copies, a capacity-growth Insert in which
\* the copy of the k-th element throws, or (for any type) the allocation of
\* the larger buffer fails, leaves Size(), Capacity(), the buffer and the
\* elements as they were.
C3_GrowthFailureKeepsVector ==
    [][\A v \in Vecs :
         (/\ IsInsertion(last') /\ last'.v = v /\ last'.thrown
          /\ Growing(vec[v])
          /\ \/ last'.f.at = "alloc"
             \/ /\ last'.f.at \in {"pre", "suf"}
                /\ IsCopyConstructible(profile) /\ ~IsNothrowMoveConstructible(profile))
         => /\ vec'[v] = vec[v]
            /\ BlockOf(vec'[v], heap') = BlockOf(vec[v], heap)]_vars

C3_Witness ==
    /\ IsInsertion(last) /\ last.thrown
    /\ last.f = FailAt("suf", 0) /\ last.pos = 1
    /\ profile = "CopyPreferred"
    /\ vec[last.v].size_ = 2 /\ vec[last.v].data_.capacity_ = 2
    /\ Clean(vec[last.v], heap)

\* C4: when a capacity-growth Insert fails while relocating the prefix or the
\* suffix, every element constructed in the new buffer has been destroyed
\* (once) before the new block is released.
C4_GrowthFailureDestroysNewElements ==
    (IsInsertion(last) /\ last.thrown /\ last.f.at \in {"pre", "suf"})
    => LostAtFree(last) = {} /\ DeadDestroys(last) = {}

\* C5: when an insertion at the end with spare capacity fails to construct
\* the element, nothing is touched and no destructor runs on the slot.
C5_EndFailureTouchesNothing ==
    [][\A v \in Vecs :
         (/\ IsInsertion(last') /\ last'.v = v /\ last'.thrown
          /\ Clean(vec[v], heap)
          /\ AtEndWithRoom(vec[v], last'.pos))
         => /\ vec'[v] = vec[v]
            /\ heap' = heap
            /\ Events(last', {"destroy"}) = {}]_vars

\* C6 as claimed: a failing Reserve(n), n > Capacity(), destroys what it had
\* relocated, releases the new block, destroys no old element and leaves
\* Size(), Capacity(), the buffer and the element values as they were.
C6_ReserveStrongGuarantee ==
    [][\A v \in Vecs :
         (last'.op = "Reserve" /\ last'.v = v /\ last'.thrown)
         => /\ vec'[v] = vec[v]
            /\ heap' = heap
            /\ LostAtFree(last') = {}
            /\ \A k \in Events(last', {"destroy"}) :
                 last'.log[k].b # vec[v].data_.buffer_]_vars

\* C6 as amended: the same, except that for a type that cannot be copied and
\* whose move throws the elements already moved stay moved-from.
C6_ReserveGuaranteeForCopies ==
    [][\A v \in Vecs :
         (last'.op = "Reserve" /\ last'.v = v /\ last'.thrown)
         => /\ vec'[v] = vec[v]
            /\ IsCopyConstructible(profile) => heap' = heap
            /\ \A b \in Blocks : heap'[b].alloc = heap[b].alloc
            /\ \A i \in 1..vec[v].data_.capacity_ :
                 \/ BlockOf(vec'[v], heap')[i] = BlockOf(vec[v], heap)[i]
                 \/ /\ BlockOf(vec'[v], heap')[i] = MovedFrom
                    /\ i <= last'.f.k
            /\ LostAtFree(last') = {}
            /\ \A k \in Events(last', {"destroy"}) :
                 last'.log[k].b # vec[v].data_.buffer_]_vars

C6_Witness ==
    /\ last.op = "Reserve" /\ last.thrown
    /\ last.f = FailAt("reloc", 1)
    /\ profile = "CopyPreferred"
    /\ vec[last.v].size_ = 2
    /\ Clean(vec[last.v], heap)

\* C7: a failing Insert inside the sequence with spare capacity leaves
\* Size(), Capacity() and the elements [0, Size()) as they were.
C7_InsideFailureKeepsVector ==
    [][\A v \in Vecs :
         (/\ IsInsertion(last') /\ last'.v = v /\ last'.thrown
          /\ Clean(vec[v], heap)
          /\ InsideWithRoom(vec[v], last'.pos))
         => /\ vec'[v] = vec[v]
            /\ Elems(vec'[v], heap') = Elems(vec[v], heap)]_vars

\* C8: a = std::move(b) with a, b distinct gives a the elements, capacity and
\* buffer b had, leaves b empty with a null buffer, and does not fail; with
\* a and b the same vector it changes nothing.
C8_MoveAssignTransfers ==
    [][\A v, w \in Vecs :
         (last'.op = "operator=(&&)" /\ last'.v = v /\ last'.w = w)
         => /\ ~last'.thrown
            /\ heap' = heap
            /\ IF v = w THEN vec' = vec
               ELSE /\ vec'[v].data_ = vec[w].data_
                    /\ vec'[v].size_ = vec[w].size_
                    /\ Elems(vec'[v], heap') = Elems(vec[w], heap)
                    /\ vec'[w] = EmptyVector]_vars

C8_Witness ==
    /\ last.op = "operator=(&&)" /\ last.v # last.w
    /\ vec[last.v].size_ = 2
    /\ Elems(vec[last.v], heap) = <<0, 1>>
    /\ vec[last.w] = EmptyVector

\* C9: after non-failing calls followed by the destruction of every vector,
\* every element has been destroyed and every block deallocated.
C9_NothingLeaks ==
    (throws = 0 /\ \A v \in Vecs : ~vec[v].alive)
    => \A b \in Blocks : ~heap[b].alloc

\* C10: in Reserve and in every Insert an existing element is transferred by
\* a move when its move cannot throw or it cannot be copied, and by a copy
\* otherwise; an element of a copy-preferred type is never moved from.
C10_RelocationPolicy ==
    (IsInsertion(last) \/ last.op = "Reserve")
    => IF IsNothrowMoveConstructible(profile) \/ ~IsCopyConstructible(profile)
       THEN Events(last, {"copy", "copyassign"}) = {}
       ELSE \A k \in Events(last, {"move", "moveassign"}) :
              last.log[k].sb = nullptr \/ ~last.log[k].src

(***************************************************************************)
(* The reference growable array of the PushBack count property: it         *)
(* reallocates exactly when size equals capacity, doubling from 1.         *)
(***************************************************************************)
RECURSIVE RefCapacity(_)
RefCapacity(n) ==
    IF n = 0 THEN 0
    ELSE LET c == RefCapacity(n - 1)
         IN  IF n - 1 = c THEN (IF c = 0 THEN 1 ELSE 2 * c) ELSE c

\* elements relocated (and then destroyed) over the first n appends
RECURSIVE RefRelocations(_)
RefRelocations(n) ==
    IF n = 0 THEN 0
    ELSE RefRelocations(n - 1) + (IF n - 1 = RefCapacity(n - 1) THEN n - 1 ELSE 0)

RefTally(n, p) ==
    LET byMove == IsNothrowMoveConstructible(p) \/ ~IsCopyConstructible(p)
    IN  [on |-> TRUE, pushes |-> n, construct |-> n,
         copy |-> IF byMove THEN 0 ELSE RefRelocations(n),
         move |-> IF byMove THEN RefRelocations(n) ELSE 0,
         destroy |-> RefRelocations(n)]

\* C11: over every sequence of PushBack calls on a container created empty,
\* for each element type, the numbers of constructions, copies, moves and
\* destructions are those of the reference growable array, and so are the
\* size and the capacity.
C11_PushBackCountsMatchReference ==
    tally.on =>
        /\ tally = RefTally(tally.pushes, profile)
        /\ \A v \in Vecs : vec[v].alive =>
             /\ vec[v].size_ = tally.pushes
             /\ vec[v].data_.capacity_ = RefCapacity(tally.pushes)

C11_Witness ==
    /\ tally.on /\ tally.pushes = 4
    /\ profile = "CopyPreferred"
    /\ tally.copy = 3 /\ tally.destroy = 3 /\ tally.construct = 4
    /\ vec["a"].data_.capacity_ = 4

\* the capacity an insertion into V must leave
GrownCapacity(V) ==
    IF V.size_ < V.data_.capacity_ THEN V.data_.capacity_
    ELSE IF V.data_.capacity_ = 0 THEN 1 ELSE 2 * V.data_.capacity_

\* the call `op` at position pos with value x, made on the intact sequence s
Step(v, call, op, pos, x, s) ==
    /\ call.op = op /\ call.v = v /\ call.pos = pos /\ call.x = x /\ ~call.thrown
    /\ Intact(vec[v], heap)
    /\ Elems(vec[v], heap) = s

\* vector v holds the intact sequence s after the step
Gives(v, s) == Intact(vec[v], heap)' /\ Elems(vec[v], heap)' = s

\* C12: an insertion leaves Capacity() as it was when Size() < Capacity() and
\* makes it 1 (from 0) or twice as large when Size() = Capacity(); from an
\* empty container PushBack 1, 2, 3 gives capacities 1, 2, 4 and [1,2,3], then
\* Insert(begin+1, 9) gives [1,9,2,3], Erase(begin+2) gives [1,9,3] and
\* PopBack() gives [1,9].
C12_CapacityAndScenario ==
    [][\A v \in Vecs :
         /\ (IsInsertion(last') /\ last'.v = v /\ ~last'.thrown)
            => vec'[v].data_.capacity_ = GrownCapacity(vec[v])
         /\ (Step(v, last', "PushBack", 0, 1, <<>>) /\ vec[v].data_.capacity_ = 0)
            => Gives(v, <<1>>) /\ vec'[v].data_.capacity_ = 1
         /\ (Step(v, last', "PushBack", 1, 2, <<1>>) /\ vec[v].data_.capacity_ = 1)
            => Gives(v, <<1, 2>>) /\ vec'[v].data_.capacity_ = 2
         /\ (Step(v, last', "PushBack", 2, 3, <<1, 2>>) /\ vec[v].data_.capacity_ = 2)
            => Gives(v, <<1, 2, 3>>) /\ vec'[v].data_.capacity_ = 4
         /\ (Step(v, last', "Insert", 1, 9, <<1, 2, 3>>) /\ vec[v].data_.capacity_ = 4)
            => Gives(v, <<1, 9, 2, 3>>)
         /\ Step(v, last', "Erase", 2, 0, <<1, 9, 2, 3>>) => Gives(v, <<1, 9, 3>>)
         /\ Step(v, last', "PopBack", 0, 0, <<1, 9, 3>>) => Gives(v, <<1, 9>>)]_vars

\* the events of the kinds `ops` in the trace of call c, in order
Trace(c, ops) == SelectSeq(c.log, LAMBDA e : e.op \in ops)

\* element operation `op` on slot i of block b, reading slot i of block sb
Did(op, b, sb, i) == [op |-> op, b |-> b, i |-> i, sb |-> sb, si |-> i]

Brief(e) == [op |-> e.op, b |-> e.b, i |-> e.i, sb |-> e.sb, si |-> e.si]

\* C13: a non-failing a = b with b.Size() <= a.Capacity() leaves a with b's
\* size and elements in a's own buffer and capacity, leaves b as it was, reads
\* only b's slots [0, b.Size()), and beside the assignments over the common
\* prefix makes exactly a.Size() - b.Size() destructions of a's trailing
\* elements when a was longer, and exactly b.Size() - a.Size() copy
\* constructions from a's old end on when b is longer.
C13_CopyAssignReusesStorage ==
    [][\A v, w \in Vecs :
         (/\ last'.op = "operator=(const&)" /\ last'.v = v /\ last'.w = w /\ v # w
          /\ ~last'.thrown
          /\ Intact(vec[v], heap) /\ Intact(vec[w], heap)
          /\ vec[w].size_ <= vec[v].data_.capacity_)
         => LET na == vec[v].size_
                nb == vec[w].size_
                ab == vec[v].data_.buffer_
                wb == vec[w].data_.buffer_
                both == Min(na, nb)
                made == Trace(last', {"copy", "move", "construct", "value"})
                gone == Trace(last', {"destroy"})
                assigned == Trace(last', {"copyassign", "moveassign"})
            IN  /\ vec'[v].size_ = nb
                /\ Elems(vec'[v], heap') = Elems(vec[w], heap)
                /\ vec'[v].data_ = vec[v].data_
                /\ vec'[w] = vec[w]
                /\ BlockOf(vec'[w], heap') = BlockOf(vec[w], heap)
                /\ Events(last', {"alloc", "free"}) = {}
                /\ \A k \in 1..Len(last'.log) :
                     last'.log[k].sb # nullptr =>
                       /\ last'.log[k].sb = wb
                       /\ last'.log[k].si < nb
                       /\ last'.log[k].src
                /\ [k \in 1..Len(assigned) |-> Brief(assigned[k])]
                     = [k \in 1..both |-> Did("copyassign", ab, wb, k - 1)]
                /\ [k \in 1..Len(gone) |-> Brief(gone[k])]
                     = [k \in 1..(na - both) |->
                          [op |-> "destroy", b |-> ab, i |-> nb + k - 1, sb |-> 0, si |-> 0]]
                /\ \A k \in 1..Len(gone) : gone[k].dst
                /\ [k \in 1..Len(made) |-> Brief(made[k])]
                     = [k \in 1..(nb - both) |-> Did("copy", ab, wb, na + k - 1)]
                /\ \A k \in 1..Len(made) : ~made[k].dst]_vars

\* 5 against 2: three destructions
C13_Witness ==
    /\ last.op = "operator=(const&)" /\ last.v = "a" /\ last.w = "b" /\ ~last.thrown
    /\ Count(last.log, {"destroy"}) = 3
    /\ Count(last.log, {"copyassign"}) = 2
    /\ vec["a"].size_ = 2 /\ vec["a"].data_.capacity_ = 5
    /\ Elems(vec["a"], heap) = <<1, 0>>
    /\ Elems(vec["b"], heap) = <<1, 0>>

\* C14: a non-failing Insert(p, v) into an intact container followed by
\* Erase(p) restores the sequence and the Size() the container had before the
\* insertion, in each of the three cases of Insert.
C14_InsertEraseRoundTrip ==
    [][\A v \in Vecs :
         (/\ last'.op = "Erase" /\ last'.v = v /\ ~last'.thrown
          /\ saved.on /\ saved.v = v /\ saved.pos = last'.pos)
         => /\ vec'[v].size_ = Len(saved.elems)
            /\ Elems(vec'[v], heap') = saved.elems
            /\ Intact(vec[v], heap)']_vars

\* s without its element at index p (from 0)
RemovedAt(s, p) == SubSeq(s, 1, p) \o SubSeq(s, p + 2, Len(s))

\* C15: a non-failing Erase(p), 0 <= p < Size(), on an intact container with
\* sequence s leaves s[0..p) followed by s[p+1..), makes Size() one smaller,
\* leaves Capacity() and the buffer as they were, destroys exactly one
\* element, the one in the trailing slot, and returns position p.
C15_ErasePostcondition ==
    [][\A v \in Vecs :
         (/\ last'.op = "Erase" /\ last'.v = v /\ ~last'.thrown
          /\ Intact(vec[v], heap))
         => LET gone == Trace(last', {"destroy"})
            IN  /\ vec'[v].size_ = vec[v].size_ - 1
                /\ Elems(vec'[v], heap') = RemovedAt(Elems(vec[v], heap), last'.pos)
                /\ Intact(vec[v], heap)'
                /\ vec'[v].data_ = vec[v].data_
                /\ Events(last', {"alloc", "free", "construct", "copy", "move", "value"}) = {}
                /\ Len(gone) = 1
                /\ gone[1].b = vec[v].data_.buffer_
                /\ gone[1].i = vec[v].size_ - 1
                /\ gone[1].dst
                /\ last'.ret = last'.pos]_vars

C15_Witness ==
    /\ last.op = "Erase" /\ last.pos = 0 /\ ~last.thrown
    /\ Len(Trace(last, {"moveassign"})) = 2
    /\ \A k \in 1..Len(last.log) : last.log[k].src
    /\ Intact(vec[last.v], heap)
    /\ Elems(vec[last.v], heap) = <<1, 0>>
    /\ vec[last.v].data_.capacity_ = 4

Max(x, y) == IF x > y THEN x ELSE y

\* C16: a non-failing Reserve(n) on a well-formed container changes neither
\* Size() nor the elements and leaves Capacity() = max(old capacity, n); with
\* n <= Capacity() it changes nothing at all (same buffer, same slots, no
\* element operation, no allocation).
C16_ReserveFrame ==
    [][\A v \in Vecs :
         (last'.op = "Reserve" /\ last'.v = v /\ ~last'.thrown)
         => /\ last'.n <= vec[v].data_.capacity_
               => /\ vec' = vec
                  /\ heap' = heap
                  /\ last'.log = <<>>
            /\ WellFormed(vec[v], heap)
               => /\ vec'[v].size_ = vec[v].size_
                  /\ Elems(vec'[v], heap') = Elems(vec[v], heap)
                  /\ WellFormed(vec[v], heap)'
                  /\ vec'[v].data_.capacity_ = Max(vec[v].data_.capacity_, last'.n)]_vars

\* both halves happen: a Reserve below the capacity of a vector with elements
C16_Witness ==
    /\ last.op = "Reserve" /\ ~last.thrown /\ last.log = <<>>
    /\ last.n = 2
    /\ vec[last.v].data_.capacity_ = 4
    /\ Elems(vec[last.v], heap) = <<0, 1, 1>>

\* C17: when Resize(n), n > Size(), fails in the value construction of one of
\* the new trailing elements, the new elements constructed so far have been
\* destroyed and Size(), Capacity() and the elements are as before the call,
\* also when n > Capacity() before the call.
C17_ResizeFailureKeepsVector ==
    [][\A v \in Vecs :
         (/\ last'.op = "Resize" /\ last'.v = v /\ last'.thrown
          /\ last'.f.at = "value"
          /\ last'.n > vec[v].size_
          /\ Intact(vec[v], heap))
         => /\ vec'[v].size_ = vec[v].size_
            /\ vec'[v].data_.capacity_ = vec[v].data_.capacity_
            /\ Elems(vec'[v], heap') = Elems(vec[v], heap)
            /\ Intact(vec[v], heap)'
            /\ LostAtFree(last') = {}]_vars

\* C18: when a copy assignment a = b fails, in the allocation or in copying
\* an element of b, a has the Size(), Capacity() and elements it had before
\* the call, in the rebuild path (b.Size() > a.Capacity()) and in the
\* storage-reuse path (b.Size() <= a.Capacity()).
C18_CopyAssignFailureKeepsTarget ==
    [][\A v, w \in Vecs :
         (/\ last'.op = "operator=(const&)" /\ last'.v = v /\ last'.w = w /\ v # w
          /\ last'.thrown
          /\ Intact(vec[v], heap) /\ Intact(vec[w], heap))
         => /\ vec'[v] = vec[v]
            /\ Elems(vec'[v], heap') = Elems(vec[v], heap)
            /\ Intact(vec[v], heap)']_vars

\* C19: in a non-failing insertion at p < Size() < Capacity() the first step
\* constructs slot Size() from the live element at Size() - 1, the slot that
\* is destroyed is the vacated one at p, and the last step constructs the new
\* value at p; no step reads a slot without a live element, none constructs
\* over a live element, and on return [0, Size()) holds live elements.
C19_InsideInsertionSteps ==
    [][\A v \in Vecs :
         (/\ IsInsertion(last') /\ last'.v = v /\ ~last'.thrown
          /\ Intact(vec[v], heap)
          /\ InsideWithRoom(vec[v], last'.pos))
         => LET log == last'.log
                b == vec[v].data_.buffer_
                made == Events(last', {"construct", "copy", "move", "value"})
                gone == Trace(last', {"destroy"})
            IN  /\ log[1].op \in {"move", "copy"}
                /\ <<log[1].b, log[1].i>> = <<b, vec[v].size_>>
                /\ <<log[1].sb, log[1].si>> = <<b, vec[v].size_ - 1>>
                /\ Len(gone) = 1
                /\ <<gone[1].b, gone[1].i>> = <<b, last'.pos>>
                /\ log[Len(log)].op = "construct"
                /\ <<log[Len(log)].b, log[Len(log)].i>> = <<b, last'.pos>>
                /\ \A k \in 1..Len(log) : log[k].src
                /\ \A k \in made : ~log[k].dst
                /\ Intact(vec[v], heap)']_vars

IsOwnInsertion(c) == c.op \in {"InsertOwn", "PushBackOwn"}

\* C20: a non-failing Insert(p, v[k]) or PushBack(v[k]) on an intact
\* container with sequence s, the argument being a reference to the
\* container's own element k, leaves s[0..p), s[k], s[p..Size()), in each of
\* the three cases of the insertion.
C20_InsertionOfOwnElement ==
    [][\A v \in Vecs :
         (/\ IsOwnInsertion(last') /\ last'.v = v /\ ~last'.thrown
          /\ Intact(vec[v], heap))
         => /\ vec'[v].size_ = vec[v].size_ + 1
            /\ Elems(vec'[v], heap')
                 = InsertedAt(Elems(vec[v], heap), last'.pos, Elems(vec[v], heap)[last'.n + 1])
            /\ Intact(vec[v], heap)']_vars

====
